---- MODULE Spec2Model ----
(***************************************************************************)
(* smart_ptr<T>: a reference-counted handle (ptr_, ref_) over a heap       *)
(* value and a heap count.  Two source variants exist:                     *)
(*   "Project 2 - Smart Pointers (PC)/Project 2 - Smart Pointers (PC).cpp" *)
(*   "Smart Pointers Project 2/main.cpp"                                   *)
(* They differ in operator=(smart_ptr&&) only.  Spec is the first variant, *)
(* SpecMain the second.                                                    *)
(*                                                                         *)
(* The heap is modelled explicitly: every value cell and every count cell  *)
(* has an allocation state, addresses are never reused, and an access to a *)
(* cell that is not live (or through a null pointer) is undefined          *)
(* behaviour: it is recorded in last.ub and a read yields any of Garbage   *)
(* (a count) or of Contents (a value).                                     *)
(***************************************************************************)
EXTENDS Integers, FiniteSets

\* ---------------------------------------------------------------- bounds
NumHandles == 3   \* handle variables of the caller
MaxVal     == 2   \* value allocations in one run
MaxCnt     == 2   \* count allocations in one run
MaxNeg     == 1   \* a count is never driven below -MaxNeg

Handles  == 1..NumHandles
VAddr    == 1..MaxVal
CAddr    == 1..MaxCnt
Fresh    == 42              \* new int { 42 }: the content of a new value
Stored   == Fresh - 1        \* *h = 41: the content a caller writes
Contents == {Stored, Fresh}
Garbage  == {0, 1, 2}       \* what a read of dead storage may yield

VARIABLES
  life,     \* life[h]: "unborn", "live" (constructed), "dead" (destroyed)
  ptr_,     \* ptr_[h]: T* ptr_, 0 is nullptr
  ref_,     \* ref_[h]: int* ref_, 0 is nullptr
  raw,      \* the caller's raw pointer variable T* p, 0 is nullptr
  vstate,   \* vstate[a]: "unalloc", "raw" (caller's), "owned" (adopted), "freed"
  vdata,    \* vdata[a]: content of value cell a
  cstate,   \* cstate[c]: "unalloc", "live", "freed"
  cdata,    \* cdata[c]: the integer in count cell c
  last      \* the operation that produced this state, and its outcome

vars == <<life, ptr_, ref_, raw, vstate, vdata, cstate, cdata, last>>

\* ------------------------------------------------------------ heap state
\* The memory the handlers work on, as one record, so that a handler's
\* statements compose in order.
Cur ==
  [ptr |-> ptr_, ref |-> ref_, raw |-> raw, vs |-> vstate, vd |-> vdata,
   cs |-> cstate, cd |-> cdata, ub |-> {}]

ValueLive(S, p) == p # 0 /\ S.vs[p] \in {"raw", "owned"}
CountLive(S, c) == c # 0 /\ S.cs[c] = "live"

\* *ref_ as an rvalue: the cell's integer, or anything for dead storage.
CountReads(S, c) == IF CountLive(S, c) THEN {S.cd[c]} ELSE Garbage

CountUb(S, c) ==
  IF c = 0 THEN {"null_deref"}
  ELSE IF S.cs[c] # "live" THEN {"use_after_free"} ELSE {}

\* *ref_ = n
CountWrite(S, c, n) ==
  IF CountLive(S, c) THEN [S EXCEPT !.cd[c] = n]
  ELSE [S EXCEPT !.ub = @ \cup CountUb(S, c)]

\* *ptr_ as an rvalue
ValueReads(S, p) == IF ValueLive(S, p) THEN {S.vd[p]} ELSE Contents

ValueUb(S, p) ==
  IF p = 0 THEN {"null_deref"}
  ELSE IF ~ValueLive(S, p) THEN {"use_after_free"} ELSE {}

\* delete ptr_  (delete of nullptr does nothing)
DeleteValue(S, p) ==
  IF p = 0 THEN S
  ELSE IF ValueLive(S, p) THEN [S EXCEPT !.vs[p] = "freed", !.vd[p] = 0]
  ELSE [S EXCEPT !.ub = @ \cup {"double_free_value"}]

\* delete ref_
DeleteCount(S, c) ==
  IF c = 0 THEN S
  ELSE IF CountLive(S, c) THEN [S EXCEPT !.cs[c] = "freed", !.cd[c] = 0]
  ELSE [S EXCEPT !.ub = @ \cup {"double_free_count"}]

\* new int(n): the next unused count address (none when the pool is spent)
FreshCount(S) ==
  {c \in CAddr : S.cs[c] = "unalloc" /\ \A b \in CAddr : b < c => S.cs[b] # "unalloc"}

NewCount(S, c, n) == [S EXCEPT !.cs[c] = "live", !.cd[c] = n]

\* new T(d)
FreshValue(S) ==
  {a \in VAddr : S.vs[a] = "unalloc" /\ \A b \in VAddr : b < a => S.vs[b] # "unalloc"}

NewValue(S, a, d, st) == [S EXCEPT !.vs[a] = st, !.vd[a] = d]

\* A handle takes ownership of the value a raw pointer names.
Adopt(S, p) ==
  IF p # 0 /\ S.vs[p] = "raw" THEN [S EXCEPT !.vs[p] = "owned"] ELSE S

\* ------------------------------------------------------------- handlers
\* Mutant of release: "ref_ = nullptr" forgotten.
releaseKeepsRef(S, h) ==
  LET c == S.ref[h]
      p == S.ptr[h]
      Cleared(T) == [T EXCEPT !.ptr[h] = 0]
      Dec(n) == LET S1 == CountWrite(S, c, n - 1)
                IN  IF n - 1 = 0 THEN DeleteCount(DeleteValue(S1, p), c) ELSE S1
  IN  IF c = 0 THEN {Cleared(S)}
      ELSE {Cleared(Dec(n)) : n \in {m \in CountReads(S, c) : m - 1 >= -MaxNeg}}

\* Mutant of release: "delete ref_" forgotten when the count reaches 0.
releaseKeepsCount(S, h) ==
  LET c == S.ref[h]
      p == S.ptr[h]
      Cleared(T) == [T EXCEPT !.ptr[h] = 0, !.ref[h] = 0]
      Dec(n) == LET S1 == CountWrite(S, c, n - 1)
                IN  IF n - 1 = 0 THEN DeleteValue(S1, p) ELSE S1
  IN  IF c = 0 THEN {Cleared(S)}
      ELSE {Cleared(Dec(n)) : n \in {m \in CountReads(S, c) : m - 1 >= -MaxNeg}}

\* void release(): the set of outcomes (one, unless ref_ dangles).
release(S, h) ==
  LET c == S.ref[h]
      p == S.ptr[h]
      Cleared(T) == [T EXCEPT !.ptr[h] = 0, !.ref[h] = 0]
      Dec(n) == LET S1 == CountWrite(S, c, n - 1)
                IN  IF n - 1 = 0 THEN DeleteCount(DeleteValue(S1, p), c) ELSE S1
  IN  IF c = 0 THEN {Cleared(S)}
      ELSE {Cleared(Dec(n)) : n \in {m \in CountReads(S, c) : m - 1 >= -MaxNeg}}

\* Mutant of Alias: the "if (ptr_)" test forgotten, an empty source counts too.
AliasAlwaysIncrement(S, h, s) ==
  LET S1 == [S EXCEPT !.ptr[h] = S.ptr[s], !.ref[h] = S.ref[s]]
      c  == S.ref[s]
  IN  {CountWrite(S1, c, n + 1) : n \in CountReads(S1, c)}

\* Mutant of Alias: "(*ref_)++" forgotten.
AliasNoIncrement(S, h, s) ==
  {[S EXCEPT !.ptr[h] = S.ptr[s], !.ref[h] = S.ref[s]]}

\* ptr_ = rhs.ptr_; ref_ = rhs.ref_; if (ptr_) (*ref_)++;
Alias(S, h, s) ==
  LET S1 == [S EXCEPT !.ptr[h] = S.ptr[s], !.ref[h] = S.ref[s]]
      c  == S.ref[s]
  IN  IF S1.ptr[h] # 0
      THEN {CountWrite(S1, c, n + 1) : n \in CountReads(S1, c)}
      ELSE {S1}

\* Mutant of Steal: the move also counts the destination as a new alias.
StealAndCount(S, h, s) ==
  LET S1 == [S EXCEPT !.ptr = [@ EXCEPT ![h] = S.ptr[s], ![s] = 0],
                      !.ref = [@ EXCEPT ![h] = S.ref[s], ![s] = 0]]
  IN  IF CountLive(S, S.ref[s]) THEN CountWrite(S1, S.ref[s], S.cd[S.ref[s]] + 1) ELSE S1

\* ptr_ = rhs.ptr_; ref_ = rhs.ref_; rhs.ptr_ = nullptr; rhs.ref_ = nullptr;
Steal(S, h, s) ==
  [S EXCEPT !.ptr = [@ EXCEPT ![h] = S.ptr[s], ![s] = 0],
            !.ref = [@ EXCEPT ![h] = S.ref[s], ![s] = 0]]

\* main.cpp: ptr_ = rhs.ptr_; ref_ = rhs.ref_; rhs.ptr_ = nullptr;
\* rhs.red_ = nullptr;   -- no field red_: rhs.ref_ keeps its value
StealMain(S, h, s) ==
  [S EXCEPT !.ptr = [@ EXCEPT ![h] = S.ptr[s], ![s] = 0],
            !.ref = [@ EXCEPT ![h] = S.ref[s]]]

\* Mutant of clone: "new T(*ptr_)" forgotten, the handle keeps the shared value.
cloneShallow(S, h) ==
  LET p == S.ptr[h]
      c == S.ref[h]
      Div(n, k) ==
        LET S2 == CountWrite(S, c, n - 1)
            S3 == NewCount(S2, k, 1)
        IN  [S3 EXCEPT !.ref[h] = k]
  IN  IF p = 0 THEN {<<S, "false">>}
      ELSE UNION {
             IF n = 1
             THEN {<<[S EXCEPT !.ub = @ \cup CountUb(S, c)], "false">>}
             ELSE {<<Div(n, k), "true">> : k \in FreshCount(S)}
             : n \in {m \in CountReads(S, c) : m - 1 >= -MaxNeg} }

\* Mutant of clone: "--(*ref_)" forgotten.
cloneNoDecrement(S, h) ==
  LET p == S.ptr[h]
      c == S.ref[h]
      Div(n, a, k, d) ==
        LET S1 == NewValue([S EXCEPT !.ub = @ \cup ValueUb(S, p)], a, d, "owned")
            S3 == NewCount(S1, k, 1)
        IN  [S3 EXCEPT !.ptr[h] = a, !.ref[h] = k]
  IN  IF p = 0 THEN {<<S, "false">>}
      ELSE UNION {
             IF n = 1
             THEN {<<[S EXCEPT !.ub = @ \cup CountUb(S, c)], "false">>}
             ELSE {<<Div(n, a, k, d), "true">> :
                     a \in FreshValue(S), k \in FreshCount(S), d \in ValueReads(S, p)}
             : n \in {m \in CountReads(S, c) : m - 1 >= -MaxNeg} }

\* Mutant of clone: the "*ref_ == 1" test forgotten, a sole owner clones too.
cloneSoleOwner(S, h) ==
  LET p == S.ptr[h]
      c == S.ref[h]
      Div(n, a, k, d) ==
        LET S1 == NewValue([S EXCEPT !.ub = @ \cup ValueUb(S, p)], a, d, "owned")
            S2 == CountWrite(S1, c, n - 1)
            S3 == NewCount(S2, k, 1)
        IN  [S3 EXCEPT !.ptr[h] = a, !.ref[h] = k]
  IN  IF p = 0 THEN {<<S, "false">>}
      ELSE UNION {
             {<<Div(n, a, k, d), "true">> :
                a \in FreshValue(S), k \in FreshCount(S), d \in ValueReads(S, p)}
             : n \in {m \in CountReads(S, c) : m - 1 >= -MaxNeg} }

\* bool clone(): the set of <<state, result>> outcomes.
clone(S, h) ==
  LET p == S.ptr[h]
      c == S.ref[h]
      Div(n, a, k, d) ==
        LET S1 == NewValue([S EXCEPT !.ub = @ \cup ValueUb(S, p)], a, d, "owned")
            S2 == CountWrite(S1, c, n - 1)
            S3 == NewCount(S2, k, 1)
        IN  [S3 EXCEPT !.ptr[h] = a, !.ref[h] = k]
  IN  IF p = 0 THEN {<<S, "false">>}
      ELSE UNION {
             IF n = 1
             THEN {<<[S EXCEPT !.ub = @ \cup CountUb(S, c)], "false">>}
             ELSE {<<Div(n, a, k, d), "true">> :
                     a \in FreshValue(S), k \in FreshCount(S), d \in ValueReads(S, p)}
             : n \in {m \in CountReads(S, c) : m - 1 >= -MaxNeg} }

\* int ref_count() const { return *ref_; }: the outcomes, each the value
\* returned and the undefined behaviour met on the way.
ref_count(S, h) ==
  {[val |-> n, ub |-> CountUb(S, S.ref[h])] : n \in CountReads(S, S.ref[h])}

\* T& operator*() const: if (!ptr_) throw null_ptr_exception(); return *ptr_;
\* read through the returned reference.
deref(S, h) ==
  IF S.ptr[h] = 0
  THEN {[ok |-> "null_ptr_exception", val |-> 0, ub |-> {}]}
  ELSE {[ok |-> "done", val |-> d, ub |-> ValueUb(S, S.ptr[h])] :
          d \in ValueReads(S, S.ptr[h])}

\* T* operator->() const: if (!ptr_) throw null_ptr_exception(); return ptr_;
\* read through the returned pointer.
arrow(S, h) ==
  IF S.ptr[h] = 0
  THEN {[ok |-> "null_ptr_exception", val |-> 0, ub |-> {}]}
  ELSE {[ok |-> "done", val |-> d, ub |-> ValueUb(S, S.ptr[h])] :
          d \in ValueReads(S, S.ptr[h])}

\* ------------------------------------------------------------- plumbing
\* A handle variable that comes into scope takes the lowest unused name: the
\* names carry no meaning, so this loses no behaviour.
Live(h) == life[h] = "live"

NextSlot(h) == life[h] = "unborn" /\ \A g \in Handles : g < h => life[g] # "unborn"

Install(S, op, ok) ==
  /\ ptr_' = S.ptr
  /\ ref_' = S.ref
  /\ raw' = S.raw
  /\ vstate' = S.vs
  /\ vdata' = S.vd
  /\ cstate' = S.cs
  /\ cdata' = S.cd
  /\ last' = [op |-> op, ok |-> ok, ub |-> S.ub]

Init ==
  /\ life = [h \in Handles |-> "unborn"]
  /\ ptr_ = [h \in Handles |-> 0]
  /\ ref_ = [h \in Handles |-> 0]
  /\ raw = 0
  /\ vstate = [a \in VAddr |-> "unalloc"]
  /\ vdata = [a \in VAddr |-> 0]
  /\ cstate = [c \in CAddr |-> "unalloc"]
  /\ cdata = [c \in CAddr |-> 0]
  /\ last = [op |-> "start", ok |-> "done", ub |-> {}]

\* ------------------------------------------------------------- actions
\* The caller: T* p { new T { 42 } }  (or p = new T { 42 })
NewRaw ==
  /\ IF raw = 0 THEN TRUE ELSE vstate[raw] # "raw"
  /\ \E a \in FreshValue(Cur) :
       Install([NewValue(Cur, a, Fresh, "raw") EXCEPT !.raw = a], "new", "done")
  /\ UNCHANGED life

\* smart_ptr()
Default(h) ==
  /\ NextSlot(h)
  /\ \E c \in FreshCount(Cur) :
       Install(NewCount([Cur EXCEPT !.ptr[h] = 0, !.ref[h] = c], c, 0),
               "default", "done")
  /\ life' = [life EXCEPT ![h] = "live"]

\* explicit smart_ptr(T*& raw_ptr)
CtorRaw(h) ==
  /\ NextSlot(h)
  /\ \E c \in FreshCount(Cur) :
       Install(NewCount(Adopt([Cur EXCEPT !.ptr[h] = raw, !.ref[h] = c], raw), c, 1),
               "ctor_raw", "done")
  /\ life' = [life EXCEPT ![h] = "live"]

\* explicit smart_ptr(T*&& raw_ptr)
CtorRawMove(h) ==
  /\ NextSlot(h)
  /\ \E c \in FreshCount(Cur) :
       Install(NewCount(Adopt([Cur EXCEPT !.ptr[h] = raw, !.ref[h] = c, !.raw = 0],
                              raw), c, 1),
               "ctor_raw_move", "done")
  /\ life' = [life EXCEPT ![h] = "live"]

\* smart_ptr(const smart_ptr& rhs)
CopyCtor(h, s) ==
  /\ NextSlot(h) /\ Live(s)
  /\ \E S \in Alias(Cur, h, s) : Install(S, "copy_ctor", "done")
  /\ life' = [life EXCEPT ![h] = "live"]

\* smart_ptr(smart_ptr&& rhs)
MoveCtor(h, s) ==
  /\ NextSlot(h) /\ Live(s)
  /\ Install(Steal(Cur, h, s), "move_ctor", "done")
  /\ life' = [life EXCEPT ![h] = "live"]

\* Mutant of CopyAssign: the "release()" of the old share forgotten.
CopyAssignNoRelease(t, s) ==
  /\ Live(t) /\ Live(s)
  /\ IF t # s
     THEN \E S2 \in Alias(Cur, t, s) : Install(S2, "copy_assign", "done")
     ELSE Install(Cur, "copy_assign", "done")
  /\ UNCHANGED life

\* smart_ptr& operator=(const smart_ptr& rhs)
CopyAssign(t, s) ==
  /\ Live(t) /\ Live(s)
  /\ IF t # s
     THEN \E S1 \in release(Cur, t) : \E S2 \in Alias(S1, t, s) :
            Install(S2, "copy_assign", "done")
     ELSE Install(Cur, "copy_assign", "done")
  /\ UNCHANGED life

\* Mutant of MoveAssign: the "this != &rhs" test forgotten.
MoveAssignNoSelfTest(t, s) ==
  /\ Live(t) /\ Live(s)
  /\ \E S1 \in release(Cur, t) :
       Install(Steal(S1, t, s), "move_assign", "done")
  /\ UNCHANGED life

\* smart_ptr& operator=(smart_ptr&& rhs), the (PC) variant
MoveAssign(t, s) ==
  /\ Live(t) /\ Live(s)
  /\ IF t # s
     THEN \E S1 \in release(Cur, t) :
            Install(Steal(S1, t, s), "move_assign", "done")
     ELSE Install(Cur, "move_assign", "done")
  /\ UNCHANGED life

\* smart_ptr& operator=(smart_ptr&& rhs), the main.cpp variant
MoveAssignMain(t, s) ==
  /\ Live(t) /\ Live(s)
  /\ IF t # s
     THEN \E S1 \in release(Cur, t) :
            Install(StealMain(S1, t, s), "move_assign", "done")
     ELSE Install(Cur, "move_assign", "done")
  /\ UNCHANGED life

\* bool clone()
Clone(h) ==
  /\ Live(h)
  /\ \E o \in clone(Cur, h) : Install(o[1], "clone", o[2])
  /\ UNCHANGED life

\* h.ref_count()
RefCount(h) ==
  /\ Live(h)
  /\ \E o \in ref_count(Cur, h) :
       Install([Cur EXCEPT !.ub = o.ub], "ref_count", "done")
  /\ UNCHANGED life

\* *h
Deref(h) ==
  /\ Live(h)
  /\ \E o \in deref(Cur, h) : Install([Cur EXCEPT !.ub = o.ub], "deref", o.ok)
  /\ UNCHANGED life

\* h->member
Arrow(h) ==
  /\ Live(h)
  /\ \E o \in arrow(Cur, h) : Install([Cur EXCEPT !.ub = o.ub], "arrow", o.ok)
  /\ UNCHANGED life

\* *h = 41: operator*(), written through the returned reference
Write(h) ==
  /\ Live(h)
  /\ IF ptr_[h] = 0
     THEN Install(Cur, "write", "null_ptr_exception")
     ELSE IF ValueLive(Cur, ptr_[h])
          THEN Install([Cur EXCEPT !.vd[ptr_[h]] = Stored], "write", "done")
          ELSE Install([Cur EXCEPT !.ub = ValueUb(Cur, ptr_[h])], "write", "done")
  /\ UNCHANGED life

\* ~smart_ptr()
Destroy(h) ==
  /\ Live(h)
  /\ \E S \in release(Cur, h) : Install(S, "destroy", "done")
  /\ life' = [life EXCEPT ![h] = "dead"]

Common ==
  \/ NewRaw
  \/ \E h \in Handles : Default(h)
  \/ \E h \in Handles : CtorRaw(h)
  \/ \E h \in Handles : CtorRawMove(h)
  \/ \E h \in Handles, s \in Handles : CopyCtor(h, s)
  \/ \E h \in Handles, s \in Handles : MoveCtor(h, s)
  \/ \E t \in Handles, s \in Handles : CopyAssign(t, s)
  \/ \E h \in Handles : Clone(h)
  \/ \E h \in Handles : RefCount(h)
  \/ \E h \in Handles : Deref(h)
  \/ \E h \in Handles : Arrow(h)
  \/ \E h \in Handles : Write(h)
  \/ \E h \in Handles : Destroy(h)

Next == Common \/ \E t \in Handles, s \in Handles : MoveAssign(t, s)

NextMain == Common \/ \E t \in Handles, s \in Handles : MoveAssignMain(t, s)

Spec == Init /\ [][Next]_vars

SpecMain == Init /\ [][NextMain]_vars

\* ------------------------------------------------- vocabulary of the claims
Empty(h) == ptr_[h] = 0

HasCount(h) == ref_[h] # 0 /\ cstate[ref_[h]] = "live"

\* The alias group of h: the live handles sharing its value and its count.
Group(h) == {g \in Handles : Live(g) /\ ptr_[g] = ptr_[h] /\ ref_[g] = ref_[h]}

\* The live handles holding value v.
Holders(v) == {g \in Handles : Live(g) /\ ptr_[g] = v}

\* What h.ref_count() may return in this state.
Reported(h) == {o.val : o \in ref_count(Cur, h)}

Heap == <<ptr_, ref_, raw, vstate, vdata, cstate, cdata>>

\* Every handle that was constructed has been destroyed.
AllDestroyed == (\E h \in Handles : life[h] = "dead") /\ \A h \in Handles : ~Live(h)

\* ------------------------------------------------------------------ claims
\* C1 (I2): whenever two or more live handles hold the same value, they hold
\* the same count instance, and the integer in it is the number of live
\* handles holding that value.
C1_SharedCountIsHolders ==
  \A h \in Handles, g \in Handles :
    (h # g /\ Live(h) /\ Live(g) /\ ~Empty(h) /\ ptr_[h] = ptr_[g]) =>
      /\ ref_[h] = ref_[g]
      /\ HasCount(h)
      /\ cdata[ref_[h]] = Cardinality(Holders(ptr_[h]))

\* C2: for every live handle h, ref_count(h) = 0 if and only if h is empty.
C2_CountZeroIffEmpty ==
  \A h \in Handles :
    Live(h) => \A n \in Reported(h) : (n = 0) <=> Empty(h)

\* C3: no value storage and no count storage is deallocated twice, and no
\* operation reads or writes a value or a count already deallocated.
C3_NoDoubleFreeNoUseAfterFree ==
  last.ub \cap {"double_free_value", "double_free_count", "use_after_free"} = {}

\* C4: once all handles are destroyed, every count allocated by a handle
\* operation and every value a handle owned or allocated is deallocated.
C4_NothingLeaked ==
  AllDestroyed =>
    /\ \A c \in CAddr : cstate[c] # "live"
    /\ \A a \in VAddr : vstate[a] # "owned"

\* C5: copy-constructing from a non-empty handle raises the shared count by
\* exactly 1, every handle of the alias group (source, new handle, earlier
\* aliases) then reports the new count, and no value is allocated or copied.
C5_CopyCtorAddsOne ==
  [][\A h \in Handles, s \in Handles :
       (CopyCtor(h, s) /\ ~Empty(s)) =>
         /\ HasCount(s)
         /\ ptr_'[h] = ptr_[s] /\ ref_'[h] = ref_[s]
         /\ cdata'[ref_[s]] = cdata[ref_[s]] + 1
         /\ \A g \in Group(s) \cup {h} :
              /\ ptr_'[g] = ptr_[s] /\ ref_'[g] = ref_[s]
              /\ Reported(g)' = {cdata[ref_[s]] + 1}
         /\ vstate' = vstate /\ vdata' = vdata /\ cstate' = cstate
         /\ last'.ub = {}
    ]_vars

\* C5's case: a third handle has just been copy-constructed into a group.
C5_Witness ==
  /\ last.op = "copy_ctor"
  /\ \E h \in Handles :
       Live(h) /\ ~Empty(h) /\ HasCount(h) /\ cdata[ref_[h]] = 3
               /\ Cardinality(Group(h)) = 3

Moved(t, s) ==
  /\ ptr_'[t] = ptr_[s] /\ ref_'[t] = ref_[s]
  /\ ptr_'[s] = 0 /\ ref_'[s] = 0
  /\ \A g \in Handles \ {t, s} : ptr_'[g] = ptr_[g] /\ ref_'[g] = ref_[g]

\* The count instance of s is as it was, and so every handle left in the
\* group reports what it reported.
CountKept(s) ==
  /\ cstate'[ref_[s]] = cstate[ref_[s]]
  /\ cdata'[ref_[s]] = cdata[ref_[s]]
  /\ \A g \in Group(s) \ {s} : Live(g)' => Reported(g)' = Reported(g)

\* The count instance of s has lost exactly one share and is still live.
CountLoweredByOne(s) ==
  /\ cstate'[ref_[s]] = "live"
  /\ cdata'[ref_[s]] = cdata[ref_[s]] - 1

\* Destroying a handle already emptied by a move changes nothing on the heap.
EmptiedSourceDestroyed ==
  \A h \in Handles :
    (Destroy(h) /\ ptr_[h] = 0 /\ ref_[h] = 0) => (UNCHANGED Heap /\ last'.ub = {})

\* C7 as stated: move construction and move assignment between distinct
\* handles never change the count of the group transferred; the destination
\* holds the source's former value and count instance with the same integer,
\* the source becomes empty, and destroying the emptied source later changes
\* no count.
C7_MoveKeepsCount ==
  [][/\ \A t \in Handles, s \in Handles :
          (t # s /\ (MoveCtor(t, s) \/ MoveAssign(t, s))) =>
            /\ Moved(t, s)
            /\ ~Empty(s) => (HasCount(s) /\ CountKept(s))
     /\ EmptiedSourceDestroyed
    ]_vars

\* C7 as amended: the count of the group transferred is unchanged unless the
\* destination of a move assignment was itself a handle of that group; then
\* the release of the destination's own share lowers the count by exactly 1.
C7_MoveKeepsCountUnlessShared ==
  [][/\ \A t \in Handles, s \in Handles :
          (t # s /\ (MoveCtor(t, s) \/ MoveAssign(t, s))) =>
            /\ Moved(t, s)
            /\ ~Empty(s) =>
                 /\ HasCount(s)
                 /\ IF t \in Group(s) THEN CountLoweredByOne(s) ELSE CountKept(s)
     /\ EmptiedSourceDestroyed
    ]_vars

\* C7's case: a move assignment has just handed a shared value over, and a
\* third handle of the group still holds it with count 2.
C7_Witness ==
  /\ last.op = "move_assign"
  /\ \E t \in Handles, s \in Handles, g \in Handles :
       /\ t # g /\ Live(t) /\ Live(s) /\ Live(g)
       /\ ptr_[s] = 0 /\ ref_[s] = 0
       /\ ~Empty(t) /\ g \in Group(t) /\ HasCount(t) /\ cdata[ref_[t]] = 2

\* C8: in both source variants, move assignment between distinct handles
\* leaves the source with its value reference and its count reference
\* cleared, so that destroying the source later decrements no count.
C8_MoveAssignEmptiesSource ==
  [][\A t \in Handles, s \in Handles :
       (t # s /\ (MoveAssign(t, s) \/ MoveAssignMain(t, s))) =>
         (ptr_'[s] = 0 /\ ref_'[s] = 0)
    ]_vars

C10_CloneRefuses ==
  [][\A h \in Handles :
       (Clone(h) /\ (Empty(h) \/ (HasCount(h) /\ cdata[ref_[h]] = 1))) =>
         /\ last'.ok = "false"
         /\ last'.ub = {}
         /\ UNCHANGED <<Heap, life>>
    ]_vars

\* C10's cases: clone() has just returned false while a sole owner, a
\* moved-from handle and a default-constructed handle are all live.
C10_Witness ==
  /\ last.op = "clone" /\ last.ok = "false"
  /\ \E h \in Handles : Live(h) /\ ~Empty(h) /\ HasCount(h) /\ cdata[ref_[h]] = 1
  /\ \E h \in Handles : Live(h) /\ Empty(h) /\ ref_[h] = 0

\* C11: copy-assigning a handle to itself and move-assigning a handle to
\* itself change nothing, whether the handle is empty, a sole owner or
\* shared: no reference, no count, no value, no allocation, no release.
C11_SelfAssignNoOp ==
  [][\A h \in Handles :
       (CopyAssign(h, h) \/ MoveAssign(h, h)) =>
         /\ UNCHANGED <<Heap, life>>
         /\ last'.ub = {}
    ]_vars

\* C11's case: a move assignment has just run and no live handle is left
\* with both references null, so it was a self-assignment (a move between
\* distinct handles leaves such a source); the handle is one of three aliases.
C11_Witness ==
  /\ last.op = "move_assign"
  /\ \A h \in Handles : Live(h) => ref_[h] # 0
  /\ \E h \in Handles :
       Live(h) /\ ~Empty(h) /\ HasCount(h) /\ cdata[ref_[h]] = 3
               /\ Cardinality(Group(h)) = 3

\* C12: operator* and operator-> on an empty handle always end in the
\* null_ptr_exception outcome and change no state; on a non-empty handle
\* they never signal it and return the handle's current value, which is live
\* (not deallocated) storage.
C12_AccessNullOrLiveValue ==
  [][\A h \in Handles :
       (Deref(h) \/ Arrow(h)) =>
         /\ UNCHANGED <<Heap, life>>
         /\ IF Empty(h)
            THEN last'.ok = "null_ptr_exception" /\ last'.ub = {}
            ELSE /\ last'.ok = "done"
                 /\ ValueLive(Cur, ptr_[h])
                 /\ last'.ub = {}
    ]_vars

\* C13: ref_count() is total: for every live handle, a moved-from one
\* included, it completes without touching an absent or deallocated count,
\* and returns 0 when the handle is empty.
C13_RefCountTotal ==
  \A h \in Handles :
    Live(h) =>
      \A o \in ref_count(Cur, h) :
        /\ o.ub = {}
        /\ Empty(h) => o.val = 0

\* C14: after either raw-value constructor the new handle reports count 1
\* and the value it took has one count instance only (no other handle holds
\* that value under a separate count); the consuming constructor also leaves
\* the caller's raw reference null.
C14_RawCtorSoleCount ==
  [][\A h \in Handles :
       (CtorRaw(h) \/ CtorRawMove(h)) =>
         /\ ref_'[h] # 0 /\ cstate'[ref_'[h]] = "live" /\ cdata'[ref_'[h]] = 1
         /\ last'.op = "ctor_raw_move" => raw' = 0
         /\ ptr_'[h] # 0 =>
              \A g \in Handles :
                (life'[g] = "live" /\ ptr_'[g] = ptr_'[h]) => ref_'[g] = ref_'[h]
    ]_vars

\* C15: copy assignment t = s between distinct handles releases t's old
\* share, then aliases s.  t's old count drops by exactly 1, and the count
\* and t's old value are freed exactly when it was 1; the count of a
\* non-empty s rises by exactly 1; t ends with s's references.  When t and s
\* already hold the same count and s is non-empty, nothing is freed and every
\* count is the same after the assignment as before it.
C15_CopyAssignReleasesThenAliases ==
  [][\A t, s \in Handles :
       (t # s /\ CopyAssign(t, s)) =>
         LET ct == ref_[t]
             cs == ref_[s]
             pt == ptr_[t]
         IN  /\ ptr_' = [ptr_ EXCEPT ![t] = ptr_[s]]
             /\ ref_' = [ref_ EXCEPT ![t] = ref_[s]]
             /\ (HasCount(t) /\ (ct # cs \/ Empty(s))) =>
                  IF cdata[ct] = 1
                  THEN /\ cstate'[ct] = "freed"
                       /\ pt # 0 => vstate'[pt] = "freed"
                  ELSE /\ cstate'[ct] = "live"
                       /\ cdata'[ct] = cdata[ct] - 1
                       /\ pt # 0 => vstate'[pt] = vstate[pt]
             /\ (~Empty(s) /\ ct # cs) =>
                  /\ HasCount(s)
                  /\ cstate'[cs] = "live"
                  /\ cdata'[cs] = cdata[cs] + 1
             /\ (~Empty(s) /\ ct = cs) =>
                  /\ t \in Group(s)
                  /\ UNCHANGED <<vstate, vdata, cstate, cdata>>
                  /\ last'.ub = {}
    ]_vars

\* C15's case: the last operation was a copy assignment, and the two handles
\* ever built alias the second value under one count of 2 while the first
\* value and its count are freed: an assignment t = s whose release took
\* t's old count to 0 has run.
C15_Witness ==
  /\ last.op = "copy_assign"
  /\ life = <<"live", "live", "unborn">>
  /\ ptr_[1] = 2 /\ ptr_[2] = 2 /\ ref_[1] = ref_[2]
  /\ HasCount(1) /\ cdata[ref_[1]] = 2
  /\ vstate = <<"freed", "owned">>
  /\ \E c \in CAddr : cstate[c] = "freed"

\* What operator* reads through handle h in the current state.
ReadThrough(h) == {o.val : o \in deref(Cur, h)}

C17_CountStepsByOne ==
  [][/\ \A c \in CAddr :
         cstate[c] = "live" =>
           /\ cstate'[c] = "live" =>
                /\ cdata'[c] - cdata[c] \in {-1, 0, 1}
                /\ cdata'[c] < cdata[c] =>
                     last'.op \in {"destroy", "copy_assign", "move_assign", "clone"}
                /\ cdata'[c] > cdata[c] =>
                     /\ last'.op \in {"copy_ctor", "copy_assign"}
                     /\ \E h \in Handles :
                          /\ life'[h] = "live" /\ ref_'[h] = c /\ ptr_'[h] # 0
                          /\ life[h] = "unborn" \/ ref_[h] # c
           /\ cstate'[c] # "live" =>
                /\ cdata[c] = 1
                /\ last'.op \in {"destroy", "copy_assign", "move_assign"}
     /\ \A h, s \in Handles :
         ((CopyCtor(h, s) \/ CopyAssign(h, s)) /\ Empty(s)) =>
           \A c \in CAddr : cstate[c] = "live" => cdata'[c] <= cdata[c]
   ]_vars

\* C17's case: a copy assignment has just run that lowered one count below
\* zero (the old share of a default-constructed handle) and raised another
\* to 2.
C17_Witness ==
  /\ last.op = "copy_assign"
  /\ \E c, d \in CAddr :
       /\ cstate[c] = "live" /\ cdata[c] = -1
       /\ cstate[d] = "live" /\ cdata[d] = 2
       /\ \E h, g \in Handles : h # g /\ Group(h) = {h, g} /\ ref_[h] = d /\ ~Empty(h)

\* C18: release() always leaves the handle with ptr_ and ref_ both null,
\* whether or not the count reached 0, so it is idempotent: a second
\* release() on the same handle changes no count and deallocates nothing.
C18_ReleaseClearsAndIsIdempotent ==
  \A h \in Handles :
    Live(h) =>
      \A S \in release(Cur, h) :
        /\ S.ptr[h] = 0 /\ S.ref[h] = 0
        /\ release(S, h) = {S}

\* C18's case: a handle has been destroyed, its release leaving both
\* references null, while another handle still holds the value under the
\* only count ever allocated, now 1: that release either stopped above 0 or
\* ran on a handle a move had already emptied.
C18_Witness ==
  /\ last.op = "destroy" /\ last.ub = {}
  /\ \E h, g \in Handles :
       /\ life[h] = "dead" /\ ptr_[h] = 0 /\ ref_[h] = 0
       /\ Live(g) /\ ~Empty(g) /\ HasCount(g) /\ cdata[ref_[g]] = 1
       /\ ValueLive(Cur, ptr_[g])
       /\ \A k \in Handles \ {g} : ~Live(k)
       /\ \A c \in CAddr \ {ref_[g]} : cstate[c] = "unalloc"

====
